---- MODULE Spec2Model ----
(***************************************************************************)
(* Exam-attempt and proctoring-event pipeline of Pariksha AI               *)
(* (server/src/server.ts): the proctor-chunk, submit-test and get-test     *)
(* request handlers over the ExamAttempt and ProctoringLog collections.    *)
(* Every await of a handler is a step of its own, so handlers of different *)
(* requests interleave at exactly the points where Node.js can switch.     *)
(***************************************************************************)
EXTENDS Integers, Sequences, FiniteSets, Bags, TLC

\* ---------------------------------------------------------------- bounds
NumHandlers == 2
MaxRequests == 3
MaxSeqRequests == 11
MaxClock == 3
MaxE2ERequests == 4

Handlers == 1..NumHandlers

\* ---------------------------------------------------------------- values
Students == {"s1", "s2"}
TestIds == {"t1"}

\* a Date is a number of half-second ticks (500 ms) since the start of the
\* model's clock; Undefined stands for undefined / null
Undefined == 0 - 1

Max(a, b) == IF a >= b THEN a ELSE b

\* --------------------------------------------------- strings as char tuples
Upper == <<"A","B","C","D","E","F","G","H","I","J","K","L","M",
           "N","O","P","Q","R","S","T","U","V","W","X","Y","Z">>
Lower == <<"a","b","c","d","e","f","g","h","i","j","k","l","m",
           "n","o","p","q","r","s","t","u","v","w","x","y","z">>

LowerChar(c) ==
    IF \E i \in 1..26 : Upper[i] = c
      THEN Lower[CHOOSE i \in 1..26 : Upper[i] = c]
      ELSE c

toLowerCase(s) == [i \in 1..Len(s) |-> LowerChar(s[i])]

\* String.prototype.trim: the spaces at both ends are dropped
RECURSIVE trim(_)
trim(s) ==
    IF s = <<>> THEN s
    ELSE IF Head(s) = " " THEN trim(Tail(s))
    ELSE IF s[Len(s)] = " " THEN trim(SubSeq(s, 1, Len(s) - 1))
    ELSE s

includes(s, sub) ==
    \E i \in 0..(Len(s) - Len(sub)) :
        \A j \in 1..Len(sub) : s[i + j] = sub[j]

S_phone == <<"p","h","o","n","e">>
S_device == <<"d","e","v","i","c","e">>
S_multiple == <<"m","u","l","t","i","p","l","e">>
S_face == <<"f","a","c","e">>
S_no_face == <<"n","o"," ","f","a","c","e">>
S_no_person == <<"n","o"," ","p","e","r","s","o","n">>
S_audio == <<"a","u","d","i","o">>

\* the mapping without the conversion to lower case
mapLabelCaseSensitive(type) ==
    IF includes(type, S_phone) THEN "Phone Detected"
    ELSE IF includes(type, S_device) THEN "Phone Detected"
    ELSE IF includes(type, S_multiple) /\ includes(type, S_face) THEN "Multiple Faces"
    ELSE IF includes(type, S_no_face) \/ includes(type, S_no_person) THEN "No Person Visible"
    ELSE IF includes(type, S_audio) THEN "Audio Detected"
    ELSE "Looking Away"

mapViolationTypeToLabel(type) ==
    LET lower == toLowerCase(type) IN
    IF includes(lower, S_phone) THEN "Phone Detected"
    ELSE IF includes(lower, S_device) THEN "Phone Detected"
    ELSE IF includes(lower, S_multiple) /\ includes(lower, S_face) THEN "Multiple Faces"
    ELSE IF includes(lower, S_no_face) \/ includes(lower, S_no_person) THEN "No Person Visible"
    ELSE IF includes(lower, S_audio) THEN "Audio Detected"
    ELSE "Looking Away"

\* detector strings of the placeholder model
T_PhoneDetected == <<"P","h","o","n","e"," ","d","e","t","e","c","t","e","d">>
T_LookingAway == <<"L","o","o","k","i","n","g"," ","a","w","a","y">>
T_NoFace == <<"N","o"," ","f","a","c","e"," ","d","e","t","e","c","t","e","d">>
T_MultipleFaces == <<"M","u","l","t","i","p","l","e"," ","f","a","c","e","s">>
T_None == <<>>

\* detector outputs: what processVideoChunkWithML can resolve to.  severity
\* "" stands for a result that carries no severity.
NoViolation == [hasViolation |-> FALSE, violationType |-> T_None, severity |-> ""]
DetectorOutputs ==
    { NoViolation,
      [hasViolation |-> TRUE, violationType |-> T_PhoneDetected, severity |-> "high"],
      [hasViolation |-> TRUE, violationType |-> T_LookingAway, severity |-> "low"],
      [hasViolation |-> TRUE, violationType |-> T_NoFace, severity |-> ""] }

\* ------------------------------------------------------------ trust scorer
PenaltyHigh == 10
PenaltyMedium == 5
PenaltyLow == 2
InitialTrust == 100

\* a penalty table that takes every severity but high for medium
penaltyTwoLevels(severity) ==
    IF severity = "high" THEN PenaltyHigh ELSE PenaltyMedium

penalty(severity) ==
    IF severity = "high" THEN PenaltyHigh
    ELSE IF severity = "medium" THEN PenaltyMedium ELSE PenaltyLow

\* a handler that drops the detector's severity
severityAlwaysMedium(severity) == "medium"

severityOrDefault(severity) == IF severity = "" THEN "medium" ELSE severity

\* the penalty applied without the floor at 0
applyViolationNoFloor(doc, severity) ==
    [doc EXCEPT !.totalViolations = @ + 1,
                !.trustScore = @ - penalty(severity)]

\* attempt.totalViolations += 1; attempt.trustScore = Math.max(0, ...)
applyViolation(doc, severity) ==
    [doc EXCEPT !.totalViolations = @ + 1,
                !.trustScore = Max(0, @ - penalty(severity))]

\* ------------------------------------------------------- ExamAttempt store
\* A stored attempt; its _id is its position in the collection.
NoAttempt ==
    [testId |-> "", studentId |-> "", status |-> "", startedAt |-> Undefined,
     endedAt |-> Undefined, duration |-> Undefined, answers |-> <<>>,
     totalScore |-> 0, trustScore |-> 0, totalViolations |-> 0,
     questionsAttempted |-> 0]

AttemptFields == DOMAIN NoAttempt

\* new ExamAttempt({...}) of the proctor-chunk handler
newChunkAttempt(testId, studentId, startedAt) ==
    [NoAttempt EXCEPT !.testId = testId, !.studentId = studentId,
                      !.status = "in-progress", !.startedAt = startedAt,
                      !.totalScore = 0, !.trustScore = InitialTrust,
                      !.totalViolations = 0, !.questionsAttempted = 0,
                      !.answers = <<>>]

\* ExamAttempt.findOne({ testId, studentId }): the _id of the first match, 0 if none
findOne(coll, testId, studentId) ==
    LET hits == {i \in 1..Len(coll) :
                    coll[i].testId = testId /\ coll[i].studentId = studentId}
    IN IF hits = {} THEN 0 ELSE CHOOSE i \in hits : \A j \in hits : i <= j

\* the lookup with the status of a finished test instead of an attempt's
findOneCompleted(coll, testId, studentId) ==
    LET hits == {i \in 1..Len(coll) :
                    /\ coll[i].testId = testId /\ coll[i].studentId = studentId
                    /\ coll[i].status = "completed"}
    IN IF hits = {} THEN 0 ELSE CHOOSE i \in hits : \A j \in hits : i <= j

\* ExamAttempt.findOne({ testId, studentId, status: 'submitted' })
findOneSubmitted(coll, testId, studentId) ==
    LET hits == {i \in 1..Len(coll) :
                    /\ coll[i].testId = testId /\ coll[i].studentId = studentId
                    /\ coll[i].status = "submitted"}
    IN IF hits = {} THEN 0 ELSE CHOOSE i \in hits : \A j \in hits : i <= j

\* a collection whose index is not unique
indexAllowsAll(coll, doc) == TRUE

\* the unique index { testId: 1, studentId: 1 }: may doc be inserted?
uniqueIndexAllows(coll, doc) ==
    \A i \in 1..Len(coll) :
        ~(coll[i].testId = doc.testId /\ coll[i].studentId = doc.studentId)

\* the paths a document's save() writes: those set to a value other than
\* the loaded one
modifiedPaths(loaded, local) == {f \in AttemptFields : local[f] # loaded[f]}

\* a save that writes the whole document as the handler holds it
saveWholeDocument(coll, id, loaded, local) == [coll EXCEPT ![id] = local]

\* attempt.save() of a loaded document: $set of the modified paths on _id
saveUpdate(coll, id, loaded, local) ==
    [coll EXCEPT ![id] =
        [f \in AttemptFields |->
            IF f \in modifiedPaths(loaded, local) THEN local[f] ELSE coll[id][f]]]

\* ---------------------------------------------------------- ProctoringLog
\* new ProctoringLog({ attemptId, timestamp, label, severity, imageId });
\* imageId 0 stands for an event without evidence reference
newLog(attemptId, timestamp, label, severity, imageId) ==
    [attemptId |-> attemptId, timestamp |-> timestamp, label |-> label,
     severity |-> severity, imageId |-> imageId, reviewed |-> FALSE]

\* ------------------------------------------------- Test / Question registry
\* JSON values of a request body, tagged with their typeof
Num(n) == <<"number", n>>
Str(k) == <<"string", k>>
JsNull == <<"null", 0>>
JsUndefined == <<"undefined", 0>>

\* a student's _id as the string a query compares it with
IdString(studentId) ==
    CASE studentId = "s1" -> <<"s","1">> [] studentId = "s2" -> <<"s","2">>
      [] studentId = "s3" -> <<"s","3">> [] OTHER -> <<>>

\* e-mail addresses: as stored with the users (lower-cased, trimmed) and as
\* a client may type them
E_ann == <<"a","n","@","x",".","i","o">>
E_bob == <<"b","o","@","x",".","i","o">>
E_cy == <<"c","y","@","x",".","i","o">>
E_AnnTyped == <<"A","n","@","X",".","i","o"," ">>

\* the tests: t1 with two objective and one free-form question, t2 with two
\* objective questions, t3 with every question type, t4 restricted to the
\* e-mail of s1 and the id of s2; all are open during [1, 2)
TestDoc(testId) ==
    CASE testId = "t2" ->
           [questionIds |-> <<"q1", "q2">>, startTime |-> 1, endTime |-> 2,
            allowedStudents |-> {}]
      [] testId = "t3" ->
           [questionIds |-> <<"q2", "q3", "q4", "q5">>, startTime |-> 1,
            endTime |-> 2, allowedStudents |-> {}]
      [] testId = "t4" ->
           [questionIds |-> <<"q1">>, startTime |-> 1, endTime |-> 2,
            allowedStudents |-> {E_ann, IdString("s2")}]
      [] OTHER ->
           [questionIds |-> <<"q1", "q2", "q3">>, startTime |-> 1, endTime |-> 2,
            allowedStudents |-> {}]

QuestionDoc(questionId) ==
    CASE questionId = "q1" -> [type |-> "mcq", correctAnswer |-> Num(1), marks |-> 1]
      [] questionId = "q2" -> [type |-> "mcq", correctAnswer |-> Num(0), marks |-> 2]
      [] questionId = "q4" -> [type |-> "mcq", correctAnswer |-> Num(1), marks |-> 0]
      [] questionId = "q5" -> [type |-> "coding", correctAnswer |-> JsNull, marks |-> 3]
      [] OTHER -> [type |-> "subjective", correctAnswer |-> JsUndefined, marks |-> 5]

\* ------------------------------------------------------------------ state
VARIABLES
    now,        \* the server clock, in ticks
    dbUp,       \* whether the MongoDB connection is ready (readyState = 1)
    attempts,   \* the examattempts collection, in insertion order
    ledger,     \* the proctoringlogs collection, a bag of events
    evidence,   \* number of files in the cheatingImages GridFS bucket
    pc,         \* per handler: the await it is suspended at
    req,        \* per handler: the request body
    loc,        \* per handler: the local variables of the handler
    resp,       \* per handler: the response, once sent
    nreq        \* number of requests received so far

vars == <<now, dbUp, attempts, ledger, evidence, pc, req, loc, resp, nreq>>

NoReq ==
    [kind |-> "none", studentId |-> "", testId |-> "", email |-> <<>>,
     timestamp |-> Undefined,
     answers |-> <<>>, startTime |-> Undefined, endTime |-> Undefined,
     violations |-> <<>>]

NoResp ==
    [status |-> 0, error |-> "", violationDetected |-> FALSE,
     violationType |-> T_None, severity |-> "", actualScore |-> Undefined,
     trustScore |-> Undefined, violationCount |-> Undefined]

\* the handler's local variables; extractFailed and detectFailed record
\* that the frame extraction or the detector failed for this request
NoLoc ==
    [docId |-> 0, doc |-> NoAttempt, frameImage |-> "", ml |-> NoViolation,
     logTimestamp |-> Undefined, imageId |-> 0, duration |-> Undefined,
     actualScore |-> 0, questionsAttempted |-> 0, examAnswers |-> <<>>,
     violationCount |-> 0, next |-> 0,
     extractFailed |-> FALSE, detectFailed |-> FALSE]

InitAt(clock) ==
    /\ now = clock
    /\ dbUp = TRUE
    /\ attempts = <<>>
    /\ ledger = EmptyBag
    /\ evidence = 0
    /\ pc = [h \in Handlers |-> "idle"]
    /\ req = [h \in Handlers |-> NoReq]
    /\ loc = [h \in Handlers |-> NoLoc]
    /\ resp = [h \in Handlers |-> NoResp]
    /\ nreq = 0

\* res.status(code).json(body): the handler of request rq has answered; of
\* its local variables only the failure marks are kept
Respond(h, rq, r, l) ==
    /\ resp' = [resp EXCEPT ![h] = r]
    /\ pc' = [pc EXCEPT ![h] = "done"]
    /\ req' = [req EXCEPT ![h] = rq]
    /\ loc' = [loc EXCEPT ![h] = [NoLoc EXCEPT !.extractFailed = l.extractFailed,
                                               !.detectFailed = l.detectFailed]]

\* the handler suspends at its next await
Goto(h, label, l) ==
    /\ pc' = [pc EXCEPT ![h] = label]
    /\ loc' = [loc EXCEPT ![h] = l]
    /\ UNCHANGED <<resp, req>>

\* a request is accepted and its handler suspends at its first await
Accept(h, rq, label) ==
    /\ pc' = [pc EXCEPT ![h] = label]
    /\ req' = [req EXCEPT ![h] = rq]
    /\ UNCHANGED <<resp, loc>>

\* the response has gone out and the handler's frame is released
Close(h) ==
    /\ pc[h] = "done"
    /\ pc' = [pc EXCEPT ![h] = "idle"]
    /\ req' = [req EXCEPT ![h] = NoReq]
    /\ loc' = [loc EXCEPT ![h] = NoLoc]
    /\ resp' = [resp EXCEPT ![h] = NoResp]
    /\ UNCHANGED <<now, dbUp, attempts, ledger, evidence, nreq>>

ErrorResp(status, error) == [NoResp EXCEPT !.status = status, !.error = error]

\* ------------------------------------------- POST /api/student/proctor-chunk
\* the catch block of the handler: 200, violationDetected false
chunkCatch(h, l) == Respond(h, req[h], [NoResp EXCEPT !.status = 200], l)

\* the client stamps every chunk with its own clock
ChunkTimestamps == {1}

\* arrival up to the first await (extractFrameFromVideo)
ChunkArrive(h, c) ==
    /\ pc[h] = "idle"
    /\ nreq < c.limit
    /\ nreq' = nreq + 1
    /\ \E sid \in c.students \cup {""}, tid \in c.tests, ts \in ChunkTimestamps :
          LET rq == [NoReq EXCEPT !.kind = "chunk", !.studentId = sid,
                                  !.testId = tid, !.timestamp = ts]
          IN IF ~dbUp
               THEN Respond(h, rq, ErrorResp(503, "DATABASE_UNAVAILABLE"), NoLoc)
               ELSE IF sid = "" \/ tid = ""
                 THEN Respond(h, rq, ErrorResp(400, "MISSING_FIELDS"), NoLoc)
                 ELSE Accept(h, rq, "c_extract")
    /\ UNCHANGED <<now, dbUp, attempts, ledger, evidence>>

\* extractFrameFromVideo resolves: a data URL, or '' when ffmpeg or the
\* file system fails; then processVideoChunkWithML is called
ChunkExtract(h, c) ==
    /\ pc[h] = "c_extract"
    /\ \E frame \in c.frames :
          Goto(h, "c_detect", [loc[h] EXCEPT !.frameImage = frame,
                                             !.extractFailed = (frame = "")])
    /\ UNCHANGED <<now, dbUp, attempts, ledger, evidence, nreq>>

\* a detector whose catch block reports the failure as a violation
detectorFailClosed(failed, out) ==
    IF failed
      THEN [hasViolation |-> TRUE, violationType |-> T_LookingAway, severity |-> "low"]
      ELSE out

\* processVideoChunkWithML: its catch block turns a failure into "no violation"
detectorResult(failed, out) == IF failed THEN NoViolation ELSE out

\* a handler that looks the attempt up whatever the detector reports
ChunkDetectAlwaysRecord(h) ==
    /\ pc[h] = "c_detect"
    /\ \E failed \in BOOLEAN, raw \in DetectorOutputs :
          /\ failed => raw = NoViolation
          /\ Goto(h, "c_find", [loc[h] EXCEPT !.ml = detectorResult(failed, raw),
                                              !.detectFailed = failed])
    /\ UNCHANGED <<now, dbUp, attempts, ledger, evidence, nreq>>

\* the detector resolves; without a violation the handler answers, otherwise
\* it looks the attempt up
ChunkDetect(h) ==
    /\ pc[h] = "c_detect"
    /\ \E failed \in BOOLEAN, raw \in DetectorOutputs :
          /\ failed => raw = NoViolation
          /\ LET out == detectorResult(failed, raw)
                 l == [loc[h] EXCEPT !.ml = out, !.detectFailed = failed] IN
             IF out.hasViolation /\ out.violationType # T_None
               THEN Goto(h, "c_find", l)
               ELSE Respond(h, req[h], [NoResp EXCEPT !.status = 200], l)
    /\ UNCHANGED <<now, dbUp, attempts, ledger, evidence, nreq>>

\* timestamp ? new Date(timestamp) : new Date()
dateOrNow(timestamp, clock) == IF timestamp = Undefined THEN clock ELSE timestamp

\* with the attempt at hand: the log's timestamp is taken, then the frame is
\* uploaded when there is one, else log.save() is issued
chunkAfterAttempt(h, l0) ==
    LET l == [l0 EXCEPT !.logTimestamp = dateOrNow(req[h].timestamp, now)] IN
    IF l.frameImage # "" THEN Goto(h, "c_gridfs", l) ELSE Goto(h, "c_log", l)

\* ExamAttempt.findOne resolves; a missing attempt is built and its save()
\* issued
ChunkFind(h) ==
    /\ pc[h] = "c_find"
    /\ IF ~dbUp THEN chunkCatch(h, loc[h])
       ELSE LET id == findOne(attempts, req[h].testId, req[h].studentId) IN
            IF id = 0
              THEN Goto(h, "c_insert",
                        [loc[h] EXCEPT !.doc = newChunkAttempt(req[h].testId,
                             req[h].studentId, dateOrNow(req[h].timestamp, now))])
              ELSE chunkAfterAttempt(h, [loc[h] EXCEPT !.docId = id, !.doc = attempts[id]])
    /\ UNCHANGED <<now, dbUp, attempts, ledger, evidence, nreq>>

\* attempt.save() of the new attempt: an insert, refused by the unique index
\* when the pair is already stored (the error lands in the catch block)
ChunkInsert(h) ==
    /\ pc[h] = "c_insert"
    /\ IF dbUp /\ uniqueIndexAllows(attempts, loc[h].doc)
         THEN /\ attempts' = Append(attempts, loc[h].doc)
              /\ chunkAfterAttempt(h, [loc[h] EXCEPT !.docId = Len(attempts) + 1])
         ELSE /\ chunkCatch(h, loc[h])
              /\ UNCHANGED attempts
    /\ UNCHANGED <<now, dbUp, ledger, evidence, nreq>>

\* an upload whose failure is not caught around the upload but ends the
\* request in the handler's catch block
ChunkGridFSFatal(h) ==
    /\ pc[h] = "c_gridfs"
    /\ IF dbUp
         THEN /\ evidence' = evidence + 1
              /\ Goto(h, "c_log", [loc[h] EXCEPT !.imageId = evidence + 1])
         ELSE /\ chunkCatch(h, loc[h])
              /\ UNCHANGED evidence
    /\ UNCHANGED <<now, dbUp, attempts, ledger, nreq>>

\* the GridFS upload of the frame finishes or fails; a failure is logged and
\* leaves imageId undefined; then log.save() is issued
ChunkGridFS(h) ==
    /\ pc[h] = "c_gridfs"
    /\ IF dbUp
         THEN /\ evidence' = evidence + 1
              /\ Goto(h, "c_log", [loc[h] EXCEPT !.imageId = evidence + 1])
         ELSE /\ Goto(h, "c_log", loc[h])
              /\ UNCHANGED evidence
    /\ UNCHANGED <<now, dbUp, attempts, ledger, nreq>>

\* a log.save() whose failure is swallowed: the counters are changed and
\* attempt.save() is issued all the same
ChunkLogBestEffort(h) ==
    /\ pc[h] = "c_log"
    /\ IF dbUp
         THEN ledger' = ledger (+) SetToBag({
                    newLog(loc[h].docId, loc[h].logTimestamp,
                           mapViolationTypeToLabel(loc[h].ml.violationType),
                           severityOrDefault(loc[h].ml.severity), loc[h].imageId)})
         ELSE UNCHANGED ledger
    /\ Goto(h, "c_save", loc[h])
    /\ UNCHANGED <<now, dbUp, attempts, evidence, nreq>>

\* log.save() appends the event; then the attempt's counters are changed
\* and attempt.save() is issued
ChunkLog(h) ==
    /\ pc[h] = "c_log"
    /\ IF dbUp
         THEN /\ ledger' = ledger (+) SetToBag({
                    newLog(loc[h].docId, loc[h].logTimestamp,
                           mapViolationTypeToLabel(loc[h].ml.violationType),
                           severityOrDefault(loc[h].ml.severity), loc[h].imageId)})
              /\ Goto(h, "c_save", loc[h])
         ELSE /\ chunkCatch(h, loc[h])
              /\ UNCHANGED ledger
    /\ UNCHANGED <<now, dbUp, attempts, evidence, nreq>>

\* attempt.save() writes the changed counters; the handler answers 200 with
\* the violation
ChunkSave(h) ==
    /\ pc[h] = "c_save"
    /\ LET severity == severityOrDefault(loc[h].ml.severity) IN
       IF dbUp
         THEN /\ attempts' = saveUpdate(attempts, loc[h].docId, loc[h].doc,
                                        applyViolation(loc[h].doc, severity))
              /\ Respond(h, req[h],
                         [NoResp EXCEPT !.status = 200,
                                        !.violationDetected = TRUE,
                                        !.violationType = loc[h].ml.violationType,
                                        !.severity = severity],
                         loc[h])
         ELSE /\ chunkCatch(h, loc[h])
              /\ UNCHANGED attempts
    /\ UNCHANGED <<now, dbUp, ledger, evidence, nreq>>

\* --------------------------------------------- POST /api/student/submit-test
\* the catch block of the handler (no ValidationError arises here)
submitCatch(h, l) == Respond(h, req[h], ErrorResp(500, "INTERNAL_ERROR"), l)

\* Math.floor((new Date(endTime).getTime() - new Date(startTime).getTime()) / 1000)
durationSeconds(startTime, endTime) == ((endTime - startTime) * 500) \div 1000

\* answers ? answers[q.index] : undefined
givenAnswer(answers, index) ==
    IF index \in DOMAIN answers THEN answers[index] ELSE JsUndefined

\* the evaluation loop over the test's questions from position index on:
\* [actualScore, questionsAttempted, examAnswers]
RECURSIVE evaluate(_, _, _)
evaluate(questionIds, answers, index) ==
    IF index > Len(questionIds)
      THEN [actualScore |-> 0, questionsAttempted |-> 0, examAnswers |-> <<>>]
      ELSE
        LET rest == evaluate(questionIds, answers, index + 1)
            q == QuestionDoc(questionIds[index])
            given == givenAnswer(answers, index)
            gradable == q.type = "mcq" /\ q.correctAnswer[1] = "number"
            isCorrect == gradable /\ given = q.correctAnswer
            marksAwarded == IF isCorrect THEN (IF q.marks = 0 THEN 1 ELSE q.marks) ELSE 0
        IN IF given # JsUndefined /\ given # JsNull
             THEN [actualScore |-> marksAwarded + rest.actualScore,
                   questionsAttempted |-> 1 + rest.questionsAttempted,
                   examAnswers |->
                       <<[questionId |-> questionIds[index], answer |-> given,
                          isCorrect |-> isCorrect, marksObtained |-> marksAwarded]>>
                       \o rest.examAnswers]
             ELSE rest

\* violations?.length || attempt.totalViolations || 0
countOr(violations, totalViolations) ==
    IF Len(violations) # 0 THEN Len(violations) ELSE totalViolations

\* new ExamAttempt({...}) of the submit handler, for a pair without attempt
newSubmittedAttempt(rq, l) ==
    [NoAttempt EXCEPT !.testId = rq.testId, !.studentId = rq.studentId,
                      !.status = "submitted", !.startedAt = rq.startTime,
                      !.endedAt = rq.endTime, !.duration = l.duration,
                      !.answers = l.examAnswers, !.totalScore = l.actualScore,
                      !.trustScore = InitialTrust,
                      !.totalViolations = Len(rq.violations),
                      !.questionsAttempted = l.questionsAttempted]

\* the assignments to a loaded attempt with the heuristic applied always
submitExistingHeuristic(doc, rq, l) ==
    [doc EXCEPT !.status = "submitted", !.endedAt = rq.endTime,
                !.duration = l.duration, !.answers = l.examAnswers,
                !.totalScore = l.actualScore,
                !.questionsAttempted = l.questionsAttempted,
                !.trustScore =
                    Max(0, 100 - countOr(rq.violations, doc.totalViolations) * 5)]

\* the assignments to a loaded attempt; the trust score is kept unless the
\* document has none
submitExisting(doc, rq, l) ==
    [doc EXCEPT !.status = "submitted", !.endedAt = rq.endTime,
                !.duration = l.duration, !.answers = l.examAnswers,
                !.totalScore = l.actualScore,
                !.questionsAttempted = l.questionsAttempted,
                !.trustScore =
                    IF @ = Undefined
                      THEN Max(0, 100 - countOr(rq.violations, doc.totalViolations) * 5)
                      ELSE @]

\* if (!attempt.totalViolations) attempt.totalViolations = violationCount
fillViolations(doc, violationCount) ==
    IF doc.totalViolations = 0
      THEN [doc EXCEPT !.totalViolations = violationCount] ELSE doc

AnswerPayloads ==
    { <<Num(1), Num(1), Str(1)>>,
      <<Num(1), JsNull>> }

ViolationPayloads ==
    { <<>>,
      <<[type |-> T_PhoneDetected, severity |-> "high", timestamp |-> 1]>> }

\* the client's clock at the start of the exam and at the submission; the
\* exam starts before the first chunk is stamped
SubmitTimes == { [startTime |-> 0, endTime |-> 4] }

\* arrival up to the first await (the lookup of a submitted attempt)
SubmitArrive(h, c) ==
    /\ pc[h] = "idle"
    /\ nreq < c.limit
    /\ nreq' = nreq + 1
    /\ \E sid \in c.students \cup {""}, tid \in c.tests, ans \in c.answers,
          t \in SubmitTimes, vs \in c.violations :
          LET rq == [NoReq EXCEPT !.kind = "submit", !.studentId = sid,
                                  !.testId = tid, !.answers = ans,
                                  !.startTime = t.startTime, !.endTime = t.endTime,
                                  !.violations = vs]
          IN IF ~dbUp
               THEN Respond(h, rq, ErrorResp(503, "DATABASE_UNAVAILABLE"), NoLoc)
               ELSE IF sid = "" \/ tid = ""
                 THEN Respond(h, rq, ErrorResp(400, "MISSING_FIELDS"), NoLoc)
                 ELSE Accept(h, rq, "s_check")
    /\ UNCHANGED <<now, dbUp, attempts, ledger, evidence>>

\* ExamAttempt.findOne({..., status: 'submitted' }) resolves: 409 when there
\* is one, else the duration is computed and the test fetched
SubmitCheck(h) ==
    /\ pc[h] = "s_check"
    /\ IF ~dbUp THEN submitCatch(h, loc[h])
       ELSE IF findOneSubmitted(attempts, req[h].testId, req[h].studentId) # 0
         THEN Respond(h, req[h], ErrorResp(409, "TEST_ALREADY_SUBMITTED"), loc[h])
         ELSE Goto(h, "s_test",
                   [loc[h] EXCEPT !.duration =
                        durationSeconds(req[h].startTime, req[h].endTime)])
    /\ UNCHANGED <<now, dbUp, attempts, ledger, evidence, nreq>>

\* Test.findById and Question.find resolve; the answers are evaluated and
\* the attempt is looked up
SubmitEvaluate(h) ==
    /\ pc[h] = "s_test"
    /\ IF ~dbUp THEN submitCatch(h, loc[h])
       ELSE LET e == evaluate(TestDoc(req[h].testId).questionIds, req[h].answers, 1)
            IN Goto(h, "s_find",
                    [loc[h] EXCEPT !.actualScore = e.actualScore,
                                   !.questionsAttempted = e.questionsAttempted,
                                   !.examAnswers = e.examAnswers])
    /\ UNCHANGED <<now, dbUp, attempts, ledger, evidence, nreq>>

\* ExamAttempt.findOne({ testId, studentId }) resolves; the attempt is built
\* or changed in memory and attempt.save() is issued
SubmitFind(h) ==
    /\ pc[h] = "s_find"
    /\ IF ~dbUp THEN submitCatch(h, loc[h])
       ELSE LET id == findOne(attempts, req[h].testId, req[h].studentId) IN
            Goto(h, "s_save",
                 [loc[h] EXCEPT !.docId = id,
                                !.doc = IF id = 0 THEN NoAttempt ELSE attempts[id]])
    /\ UNCHANGED <<now, dbUp, attempts, ledger, evidence, nreq>>

\* the attempt in memory before the violation count is filled in
submitAttempt(rq, l) ==
    IF l.docId = 0 THEN newSubmittedAttempt(rq, l) ELSE submitExisting(l.doc, rq, l)

\* res.status(200).json({ actualScore, trustScore, violationCount })
submitOk(l) ==
    [NoResp EXCEPT !.status = 200, !.actualScore = l.actualScore,
                   !.trustScore = l.doc.trustScore,
                   !.violationCount = l.violationCount]

\* attempt.save() resolves: an insert (refused by the unique index when the
\* pair got stored meanwhile) or an update of the modified paths; then the
\* payload's violations are logged, if any
SubmitSave(h) ==
    /\ pc[h] = "s_save"
    /\ LET a == submitAttempt(req[h], loc[h])
           violationCount == countOr(req[h].violations, a.totalViolations)
           local == fillViolations(a, violationCount)
           id == IF loc[h].docId = 0 THEN Len(attempts) + 1 ELSE loc[h].docId
           l == [loc[h] EXCEPT !.docId = id, !.doc = local,
                               !.violationCount = violationCount]
           after == IF Len(req[h].violations) > 0
                      THEN Goto(h, "s_log", [l EXCEPT !.next = 1])
                      ELSE Respond(h, req[h], submitOk(l), l)
       IN
       IF ~dbUp THEN submitCatch(h, loc[h]) /\ UNCHANGED attempts
       ELSE IF loc[h].docId = 0
         THEN IF uniqueIndexAllows(attempts, local)
                THEN attempts' = Append(attempts, local) /\ after
                ELSE submitCatch(h, loc[h]) /\ UNCHANGED attempts
         ELSE attempts' = saveUpdate(attempts, id, loc[h].doc, local) /\ after
    /\ UNCHANGED <<now, dbUp, ledger, evidence, nreq>>

\* log.save() of the payload's next violation resolves; a failure ends the
\* logging but not the submission
SubmitLog(h) ==
    /\ pc[h] = "s_log"
    /\ LET v == req[h].violations[loc[h].next] IN
       IF ~dbUp
         THEN Respond(h, req[h], submitOk(loc[h]), loc[h]) /\ UNCHANGED ledger
         ELSE /\ ledger' = ledger (+) SetToBag({
                    newLog(loc[h].docId, dateOrNow(v.timestamp, now),
                           mapViolationTypeToLabel(v.type),
                           severityOrDefault(v.severity), 0)})
              /\ IF loc[h].next < Len(req[h].violations)
                   THEN Goto(h, "s_log", [loc[h] EXCEPT !.next = @ + 1])
                   ELSE Respond(h, req[h], submitOk(loc[h]), loc[h])
    /\ UNCHANGED <<now, dbUp, attempts, evidence, nreq>>

\* ------------------------------------------- GET /api/student/test/:testId
\* the e-mail stored with the user (User.findById(studentId)?.email)
UserEmail(studentId) ==
    CASE studentId = "s1" -> E_ann [] studentId = "s2" -> E_bob
      [] studentId = "s3" -> E_cy [] OTHER -> <<>>

\* if (studentId && !email) email = user.email
emailOrUser(studentId, email) ==
    IF studentId # "" /\ email = <<>> THEN UserEmail(studentId) ELSE email

\* the query without its $or of allow-list conditions
testVisibleToAll(test, studentId, email) == studentId # "" \/ email # <<>>

\* Test.findOne({ _id, $or: [{ allowedStudents: studentId },
\* { allowedStudents: email.toLowerCase().trim() }, missing, empty] })
testVisible(test, studentId, email) ==
    \/ studentId # "" /\ IdString(studentId) \in test.allowedStudents
    \/ email # <<>> /\ trim(toLowerCase(email)) \in test.allowedStudents
    \/ test.allowedStudents = {}

\* now < test.startTime, now > test.endTime
windowError(test, clock) ==
    IF clock < test.startTime THEN "TEST_NOT_STARTED"
    ELSE IF clock > test.endTime THEN "TEST_ENDED" ELSE ""

\* arrival up to the first await (User.findById)
GetTestArrive(h, c) ==
    /\ pc[h] = "idle"
    /\ nreq < c.limit
    /\ nreq' = nreq + 1
    /\ \E sid \in c.students \cup {""}, tid \in c.tests, em \in c.emails \cup {<<>>} :
          LET rq == [NoReq EXCEPT !.kind = "get", !.studentId = sid, !.testId = tid,
                                  !.email = em]
          IN IF ~dbUp
               THEN Respond(h, rq, ErrorResp(503, "DATABASE_UNAVAILABLE"), NoLoc)
               ELSE IF sid = "" /\ em = <<>>
                 THEN Respond(h, rq, ErrorResp(400, "MISSING_STUDENT_IDENTIFIER"), NoLoc)
                 ELSE Accept(h, rq, "g_test")
    /\ UNCHANGED <<now, dbUp, attempts, ledger, evidence>>

\* User.findById and Test.findOne resolve; the window is compared with the
\* clock and the submitted attempt looked up
GetTestFind(h) ==
    /\ pc[h] = "g_test"
    /\ LET test == TestDoc(req[h].testId)
           error == windowError(test, now)
       IN
       IF ~dbUp THEN submitCatch(h, loc[h])
       ELSE IF ~testVisible(test, req[h].studentId,
                               emailOrUser(req[h].studentId, req[h].email))
         THEN Respond(h, req[h], ErrorResp(404, "TEST_NOT_FOUND"), loc[h])
         ELSE IF error # ""
           THEN Respond(h, req[h], ErrorResp(403, error), loc[h])
           ELSE Goto(h, "g_attempt", loc[h])
    /\ UNCHANGED <<now, dbUp, attempts, ledger, evidence, nreq>>

\* ExamAttempt.findOne({..., status: 'submitted' }) resolves: 403 when the
\* student has submitted, else the questions are fetched and returned
GetTestAttempt(h) ==
    /\ pc[h] = "g_attempt"
    /\ IF ~dbUp THEN submitCatch(h, loc[h])
       ELSE IF findOneSubmitted(attempts, req[h].testId, req[h].studentId) # 0
         THEN Respond(h, req[h], ErrorResp(403, "TEST_ALREADY_SUBMITTED"), loc[h])
         ELSE IF Len(TestDoc(req[h].testId).questionIds) = 0
           THEN Respond(h, req[h], ErrorResp(400, "QUESTIONS_MISSING"), loc[h])
           ELSE Respond(h, req[h], [NoResp EXCEPT !.status = 200], loc[h])
    /\ UNCHANGED <<now, dbUp, attempts, ledger, evidence, nreq>>

\* ------------------------------------------------------------- environment
\* the clock advances
Tick(limit) ==
    /\ now < limit
    /\ now' = now + 1
    /\ UNCHANGED <<dbUp, attempts, ledger, evidence, pc, req, loc, resp, nreq>>

\* the MongoDB connection drops or comes back
DbToggle ==
    /\ dbUp' = ~dbUp
    /\ UNCHANGED <<now, attempts, ledger, evidence, pc, req, loc, resp, nreq>>

\* ---------------------------------------------------------- specifications
\* what a run is made of: the handlers that take requests, the number of
\* requests, the students that send them and what frame extraction yields
ConcurrentRun ==
    [handlers |-> Handlers, limit |-> MaxRequests, students |-> Students,
     frames |-> {"", "jpeg"}, tests |-> TestIds, answers |-> AnswerPayloads,
     violations |-> ViolationPayloads, emails |-> {}]

\* one request at a time, many of them, on a server without ffmpeg
SequentialRun ==
    [handlers |-> {1}, limit |-> MaxSeqRequests, students |-> {"s1"},
     frames |-> {""}, tests |-> TestIds, answers |-> AnswerPayloads,
     violations |-> ViolationPayloads, emails |-> {}]

\* one request at a time while the clock runs through the test's window
ClockRun ==
    [handlers |-> {1}, limit |-> 2, students |-> {"s1"}, frames |-> {"", "jpeg"},
     tests |-> TestIds, answers |-> AnswerPayloads,
     violations |-> ViolationPayloads, emails |-> {}]

\* the clock stands inside the test's window
Init == InitAt(TestDoc("t1").startTime)

\* the server starts before the test's window opens
InitEarly == InitAt(0)

\* requests are handled concurrently, the database stays connected
Next ==
    \/ \E h \in ConcurrentRun.handlers : ChunkArrive(h, ConcurrentRun)
    \/ \E h \in ConcurrentRun.handlers : ChunkExtract(h, ConcurrentRun)
    \/ \E h \in ConcurrentRun.handlers : ChunkDetect(h)
    \/ \E h \in ConcurrentRun.handlers : ChunkFind(h)
    \/ \E h \in ConcurrentRun.handlers : ChunkInsert(h)
    \/ \E h \in ConcurrentRun.handlers : ChunkGridFS(h)
    \/ \E h \in ConcurrentRun.handlers : ChunkLog(h)
    \/ \E h \in ConcurrentRun.handlers : ChunkSave(h)
    \/ \E h \in ConcurrentRun.handlers : SubmitArrive(h, ConcurrentRun)
    \/ \E h \in ConcurrentRun.handlers : SubmitCheck(h)
    \/ \E h \in ConcurrentRun.handlers : SubmitEvaluate(h)
    \/ \E h \in ConcurrentRun.handlers : SubmitFind(h)
    \/ \E h \in ConcurrentRun.handlers : SubmitSave(h)
    \/ \E h \in ConcurrentRun.handlers : SubmitLog(h)
    \/ \E h \in ConcurrentRun.handlers : GetTestArrive(h, ConcurrentRun)
    \/ \E h \in ConcurrentRun.handlers : GetTestFind(h)
    \/ \E h \in ConcurrentRun.handlers : GetTestAttempt(h)
    \/ \E h \in ConcurrentRun.handlers : Close(h)

Spec == Init /\ [][Next]_vars

\* requests are handled one after another
NextSeq ==
    \/ \E h \in SequentialRun.handlers : ChunkArrive(h, SequentialRun)
    \/ \E h \in SequentialRun.handlers : ChunkExtract(h, SequentialRun)
    \/ \E h \in SequentialRun.handlers : ChunkDetect(h)
    \/ \E h \in SequentialRun.handlers : ChunkFind(h)
    \/ \E h \in SequentialRun.handlers : ChunkInsert(h)
    \/ \E h \in SequentialRun.handlers : ChunkLog(h)
    \/ \E h \in SequentialRun.handlers : ChunkSave(h)
    \/ \E h \in SequentialRun.handlers : SubmitArrive(h, SequentialRun)
    \/ \E h \in SequentialRun.handlers : SubmitCheck(h)
    \/ \E h \in SequentialRun.handlers : SubmitEvaluate(h)
    \/ \E h \in SequentialRun.handlers : SubmitFind(h)
    \/ \E h \in SequentialRun.handlers : SubmitSave(h)
    \/ \E h \in SequentialRun.handlers : SubmitLog(h)
    \/ \E h \in SequentialRun.handlers : Close(h)

SpecSeq == Init /\ [][NextSeq]_vars

\* requests are handled one after another while time passes
NextClock ==
    \/ \E h \in ClockRun.handlers : ChunkArrive(h, ClockRun)
    \/ \E h \in ClockRun.handlers : ChunkExtract(h, ClockRun)
    \/ \E h \in ClockRun.handlers : ChunkDetect(h)
    \/ \E h \in ClockRun.handlers : ChunkFind(h)
    \/ \E h \in ClockRun.handlers : ChunkInsert(h)
    \/ \E h \in ClockRun.handlers : ChunkGridFS(h)
    \/ \E h \in ClockRun.handlers : ChunkLog(h)
    \/ \E h \in ClockRun.handlers : ChunkSave(h)
    \/ \E h \in ClockRun.handlers : SubmitArrive(h, ClockRun)
    \/ \E h \in ClockRun.handlers : SubmitCheck(h)
    \/ \E h \in ClockRun.handlers : SubmitEvaluate(h)
    \/ \E h \in ClockRun.handlers : SubmitFind(h)
    \/ \E h \in ClockRun.handlers : SubmitSave(h)
    \/ \E h \in ClockRun.handlers : SubmitLog(h)
    \/ \E h \in ClockRun.handlers : GetTestArrive(h, ClockRun)
    \/ \E h \in ClockRun.handlers : GetTestFind(h)
    \/ \E h \in ClockRun.handlers : GetTestAttempt(h)
    \/ \E h \in ClockRun.handlers : Close(h)
    \/ Tick(MaxClock)

SpecClock == InitEarly /\ [][NextClock]_vars

\* the steps of the three routes for the requests of run c
ChunkSteps(c) ==
    \E h \in c.handlers :
        \/ ChunkArrive(h, c) \/ ChunkExtract(h, c) \/ ChunkDetect(h)
        \/ ChunkFind(h) \/ ChunkInsert(h) \/ ChunkGridFS(h)
        \/ ChunkLog(h) \/ ChunkSave(h)

SubmitSteps(c) ==
    \E h \in c.handlers :
        \/ SubmitArrive(h, c) \/ SubmitCheck(h) \/ SubmitEvaluate(h)
        \/ SubmitFind(h) \/ SubmitSave(h) \/ SubmitLog(h)

GetTestSteps(c) ==
    \E h \in c.handlers :
        GetTestArrive(h, c) \/ GetTestFind(h) \/ GetTestAttempt(h)

CloseSteps(c) == \E h \in c.handlers : Close(h)

\* one student takes the test of two objective questions: a few chunks, then
\* the submission
E2EAnswers == { <<Num(1), Num(1)>>, <<Num(1), Num(0)>> }

E2ERun ==
    [handlers |-> {1}, limit |-> MaxE2ERequests, students |-> {"s1"},
     frames |-> {"", "jpeg"}, tests |-> {"t2"}, answers |-> E2EAnswers,
     violations |-> ViolationPayloads, emails |-> {}]

NextE2E == ChunkSteps(E2ERun) \/ SubmitSteps(E2ERun) \/ CloseSteps(E2ERun)

SpecE2E == Init /\ [][NextE2E]_vars

\* requests are handled one after another while the MongoDB connection
\* may drop and come back at any moment
FailRun ==
    [handlers |-> {1}, limit |-> 2, students |-> {"s1"}, frames |-> {"", "jpeg"},
     tests |-> TestIds, answers |-> AnswerPayloads,
     violations |-> ViolationPayloads, emails |-> {}]

NextFail ==
    \/ ChunkSteps(FailRun) \/ SubmitSteps(FailRun) \/ GetTestSteps(FailRun)
    \/ CloseSteps(FailRun) \/ DbToggle

SpecFail == Init /\ [][NextFail]_vars

\* one submission for the test with every question type; each of the four
\* answers is a number, a string, null, or missing
AnswerValues == {Num(0), Num(1), Str(1), JsNull, JsUndefined}

GradeAnswers ==
    {<<>>} \cup {<<a, b, c, d>> : a \in AnswerValues, b \in AnswerValues,
                                c \in AnswerValues, d \in AnswerValues}

GradeRun ==
    [handlers |-> {1}, limit |-> 1, students |-> {"s1"}, frames |-> {""},
     tests |-> {"t3"}, answers |-> GradeAnswers,
     violations |-> ViolationPayloads, emails |-> {}]

NextGrade == SubmitSteps(GradeRun) \/ CloseSteps(GradeRun)

SpecGrade == Init /\ [][NextGrade]_vars

\* strings a detector or a client may report as the type of a violation
\* "Phone detected"
D_Phone ==
    <<"P","h","o","n","e"," ","d","e","t","e","c","t","e","d">>
\* "MOBILE DEVICE"
D_MobileDevice ==
    <<"M","O","B","I","L","E"," ","D","E","V","I","C","E">>
\* "Multiple faces detected"
D_Multiple ==
    <<"M","u","l","t","i","p","l","e"," ","f","a","c","e","s"," ","d","e",
      "t","e","c","t","e","d">>
\* "Multiple phones, no face"
D_MultiplePhones ==
    <<"M","u","l","t","i","p","l","e"," ","p","h","o","n","e","s",","," ",
      "n","o"," ","f","a","c","e">>
\* "No Face detected"
D_NoFace ==
    <<"N","o"," ","F","a","c","e"," ","d","e","t","e","c","t","e","d">>
\* "NO PERSON in view"
D_NoPerson ==
    <<"N","O"," ","P","E","R","S","O","N"," ","i","n"," ","v","i","e","w">>
\* "multiple frames: no face"
D_MultipleNoFace ==
    <<"m","u","l","t","i","p","l","e"," ","f","r","a","m","e","s",":"," ",
      "n","o"," ","f","a","c","e">>
\* "Audio detected"
D_Audio ==
    <<"A","u","d","i","o"," ","d","e","t","e","c","t","e","d">>
\* "no face, AUDIO on"
D_NoFaceAudio ==
    <<"n","o"," ","f","a","c","e",","," ","A","U","D","I","O"," ","o","n">>
\* "Looking away from screen"
D_LookingAway ==
    <<"L","o","o","k","i","n","g"," ","a","w","a","y"," ","f","r","o","m",
      " ","s","c","r","e","e","n">>
\* "Face turned"
D_Face ==
    <<"F","a","c","e"," ","t","u","r","n","e","d">>
\* "Unauthorized person detected"
D_Unauthorized ==
    <<"U","n","a","u","t","h","o","r","i","z","e","d"," ","p","e","r","s",
      "o","n"," ","d","e","t","e","c","t","e","d">>
\* "Suspicious behavior detected"
D_Suspicious ==
    <<"S","u","s","p","i","c","i","o","u","s"," ","b","e","h","a","v","i",
      "o","r"," ","d","e","t","e","c","t","e","d">>
\* "Multiple persons"
D_MultiplePersons ==
    <<"M","u","l","t","i","p","l","e"," ","p","e","r","s","o","n","s">>
\* "audio DEVICE"
D_AudioDevice ==
    <<"a","u","d","i","o"," ","D","E","V","I","C","E">>
\* "Noface"
D_NoFaces ==
    <<"N","o","f","a","c","e">>

DetectorStrings ==
    { D_Phone, D_MobileDevice, D_Multiple, D_MultiplePhones,
      D_NoFace, D_NoPerson, D_MultipleNoFace, D_Audio,
      D_NoFaceAudio, D_LookingAway, D_Face, D_Unauthorized,
      D_Suspicious, D_MultiplePersons, D_AudioDevice, D_NoFaces,
      T_None }

\* one submission whose payload reports one violation of any of these types
LabelPayloads ==
    { <<[type |-> t, severity |-> "low", timestamp |-> 1]>> : t \in DetectorStrings }

LabelRun ==
    [handlers |-> {1}, limit |-> 1, students |-> {"s1"}, frames |-> {""},
     tests |-> TestIds, answers |-> AnswerPayloads,
     violations |-> LabelPayloads, emails |-> {}]

NextLabel == SubmitSteps(LabelRun) \/ CloseSteps(LabelRun)

SpecLabel == Init /\ [][NextLabel]_vars

\* students fetch an open and a restricted test, by id or by e-mail, while
\* the clock runs through the window
AccessRun ==
    [handlers |-> {1}, limit |-> 2, students |-> {"s1", "s2", "s3"},
     frames |-> {""}, tests |-> {"t1", "t4"}, answers |-> AnswerPayloads,
     violations |-> ViolationPayloads, emails |-> {E_AnnTyped, E_cy}]

NextAccess == GetTestSteps(AccessRun) \/ CloseSteps(AccessRun) \/ Tick(MaxClock)

SpecAccess == InitEarly /\ [][NextAccess]_vars

\* chunks are handled one after another. The awaits on the database resolve
\* or reject in the end (the driver's operations time out) and the detector
\* computes its answer in the server's own process, so the steps after them
\* are taken. extractFrameFromVideo awaits the exit of an ffmpeg child
\* process started without a timeout: nothing obliges it to resolve
LiveRun ==
    [handlers |-> {1}, limit |-> 2, students |-> {"s1"}, frames |-> {"", "jpeg"},
     tests |-> TestIds, answers |-> AnswerPayloads,
     violations |-> ViolationPayloads, emails |-> {}]

NextLive == ChunkSteps(LiveRun) \/ CloseSteps(LiveRun)

SpecLive ==
    /\ Init /\ [][NextLive]_vars
    /\ \A h \in LiveRun.handlers :
          /\ WF_vars(ChunkDetect(h))
          /\ WF_vars(ChunkFind(h)) /\ WF_vars(ChunkInsert(h))
          /\ WF_vars(ChunkGridFS(h)) /\ WF_vars(ChunkLog(h))
          /\ WF_vars(ChunkSave(h)) /\ WF_vars(Close(h))

\* ------------------------------------------------------------------ claims
SamePair(a, b) == a.testId = b.testId /\ a.studentId = b.studentId

HasAttempt(testId, studentId) ==
    \E i \in 1..Len(attempts) :
        attempts[i].testId = testId /\ attempts[i].studentId = studentId

IsSubmitted(testId, studentId) ==
    \E i \in 1..Len(attempts) :
        /\ attempts[i].testId = testId /\ attempts[i].studentId = studentId
        /\ attempts[i].status = "submitted"

\* handler h takes a step
Moves(h) == pc'[h] # pc[h]

\* no handler is working on the pair of attempt id
Quiet(id) ==
    \A h \in Handlers :
        pc[h] \in {"idle", "done"} \/ ~SamePair(req[h], attempts[id])

\* the penalties as the specification states them
SpecPenalty(severity) ==
    CASE severity = "low" -> 2 [] severity = "medium" -> 5 [] severity = "high" -> 10

\* the events of the ledger that reference attempt id
EventsOf(id) == {e \in BagToSet(ledger) : e.attemptId = id}

RECURSIVE PenaltySum(_)
PenaltySum(events) ==
    IF events = {} THEN 0
    ELSE LET e == CHOOSE x \in events : TRUE
         IN CopiesIn(e, ledger) * SpecPenalty(e.severity) + PenaltySum(events \ {e})

RECURSIVE EventCount(_)
EventCount(events) ==
    IF events = {} THEN 0
    ELSE LET e == CHOOSE x \in events : TRUE
         IN CopiesIn(e, ledger) + EventCount(events \ {e})

\* C1: the attempt store never holds two attempts for one (testId,
\* studentId) pair, and it holds one for the pair of every answered request
\* that recorded a violation or a submission
C1_OneAttemptPerPair ==
    /\ \A i, j \in 1..Len(attempts) : SamePair(attempts[i], attempts[j]) => i = j
    /\ \A h \in Handlers :
          ( /\ pc[h] = "done" /\ resp[h].status = 200
            /\ \/ req[h].kind = "chunk" /\ resp[h].violationDetected
               \/ req[h].kind = "submit" )
          => HasAttempt(req[h].testId, req[h].studentId)
    /\ \A e \in BagToSet(ledger) : e.attemptId \in 1..Len(attempts)

\* a first-contact request is about to insert an attempt for a pair that
\* another request has stored meanwhile
C1_Witness ==
    \E h \in Handlers :
        /\ pc[h] \in {"c_insert", "s_save"}
        /\ loc[h].docId = 0
        /\ HasAttempt(req[h].testId, req[h].studentId)

\* C2: no chunk-driven update is lost: once the chunk requests on an attempt
\* have completed, its totalViolations is the number of violations they
\* recorded and its trustScore is max(0, 100 - sum of their penalties)
C2_NoLostUpdate ==
    \A id \in 1..Len(attempts) :
        (attempts[id].status = "in-progress" /\ Quiet(id)) =>
            /\ attempts[id].totalViolations = EventCount(EventsOf(id))
            /\ attempts[id].trustScore = Max(0, 100 - PenaltySum(EventsOf(id)))

\* C3: once an attempt is stored as submitted, no step changes it
C3_SubmittedImmutable ==
    [][\A id \in 1..Len(attempts) :
          attempts[id].status = "submitted" => attempts'[id] = attempts[id]]_vars

\* C4: a submit-test request for a pair whose attempt is stored as submitted
\* is answered 409 TEST_ALREADY_SUBMITTED, and neither its arrival nor its
\* rejection changes the attempt store or the ledger
C4_SecondSubmitRejected ==
    [][\A h \in Handlers :
          /\ (pc[h] = "idle" /\ req'[h].kind = "submit") =>
                (attempts' = attempts /\ ledger' = ledger)
          /\ ( /\ pc[h] = "s_check" /\ Moves(h)
               /\ IsSubmitted(req[h].testId, req[h].studentId) ) =>
                /\ pc'[h] = "done"
                /\ resp'[h].status = 409
                /\ resp'[h].error = "TEST_ALREADY_SUBMITTED"
                /\ attempts' = attempts /\ ledger' = ledger]_vars

\* a second submission has been answered 409
C4_Witness ==
    \E h \in Handlers :
        /\ pc[h] = "done" /\ req[h].kind = "submit" /\ resp[h].status = 409
        /\ IsSubmitted(req[h].testId, req[h].studentId)

\* C5: every stored attempt has a trustScore between 0 and 100
C5_TrustScoreInRange ==
    \A id \in 1..Len(attempts) :
        attempts[id].trustScore >= 0 /\ attempts[id].trustScore <= 100

\* an attempt whose penalties add up to more than 100 stands at 0
C5_Witness ==
    \E id \in 1..Len(attempts) :
        attempts[id].trustScore = 0 /\ PenaltySum(EventsOf(id)) > 100

\* C6: with the penalties low 2, medium 5, high 10, the violations recorded
\* one after another on a fresh attempt leave its trustScore at
\* max(0, 100 - sum of penalties), whatever their order
C6_ScoreIsSumOfPenalties ==
    \A id \in 1..Len(attempts) :
        (attempts[id].status = "in-progress" /\ Quiet(id)) =>
            attempts[id].trustScore = Max(0, 100 - PenaltySum(EventsOf(id)))

\* one high, one medium and one low violation have been recorded: 83
C6_Witness ==
    \E id \in 1..Len(attempts) :
        /\ attempts[id].status = "in-progress" /\ Quiet(id)
        /\ attempts[id].trustScore = 83
        /\ EventCount(EventsOf(id)) = 3
        /\ {e.severity : e \in EventsOf(id)} = {"low", "medium", "high"}

StatusRank(status) ==
    CASE status = "not-started" -> 1 [] status = "in-progress" -> 2
      [] status = "submitted" -> 3

\* C7: the status of a stored attempt never moves backwards along
\* not-started, in-progress, submitted
C7_StatusForward ==
    [][\A id \in 1..Len(attempts) :
          StatusRank(attempts'[id].status) >= StatusRank(attempts[id].status)]_vars

\* a chunk handler that loaded the attempt as in-progress is about to save
\* it after a submission has been stored
C7_Witness ==
    \E h \in Handlers :
        /\ pc[h] = "c_save"
        /\ loc[h].doc.status = "in-progress"
        /\ attempts[loc[h].docId].status = "submitted"

\* C8: an attempt is created with trustScore 100 and no step leaves the
\* stored trustScore greater than it was
C8_TrustNonIncreasing ==
    [][/\ \A id \in 1..Len(attempts) :
             attempts'[id].trustScore <= attempts[id].trustScore
       /\ \A id \in (Len(attempts) + 1)..Len(attempts') :
             attempts'[id].trustScore = 100]_vars

OutsideWindow(testId) ==
    now < TestDoc(testId).startTime \/ now >= TestDoc(testId).endTime

\* C10: a proctor-chunk or submit-test request handled outside the test's
\* window is rejected and changes neither the attempt store nor the ledger
C10_OutsideWindowRejected ==
    [][\A h \in Handlers :
          ( /\ req'[h].kind \in {"chunk", "submit"} /\ Moves(h)
            /\ OutsideWindow(req'[h].testId) ) =>
            /\ attempts' = attempts /\ ledger' = ledger
            /\ pc'[h] = "done" => resp'[h].status # 200]_vars

\* the labels of the events of the ledger that reference attempt id
LabelsOf(id) == {e.label : e \in EventsOf(id)}

\* C11: after chunks detecting a phone (high), looking away (low) and
\* nothing, a submission for the two-question test that answers question 1
\* correctly and question 2 wrongly leaves the attempt submitted with
\* totalViolations 2, trustScore 88 and totalScore 1, and the response
\* reports actualScore 1 and trustScore 88
C11_EndToEnd ==
    \A h \in Handlers :
        ( /\ pc[h] = "done" /\ req[h].kind = "submit" /\ resp[h].status = 200
          /\ req[h].testId = "t2"
          /\ req[h].answers = <<Num(1), Num(1)>> /\ req[h].violations = <<>>
          /\ LET id == findOne(attempts, req[h].testId, req[h].studentId) IN
                /\ id # 0
                /\ EventCount(EventsOf(id)) = 2
                /\ LabelsOf(id) = {"Phone Detected", "Looking Away"} )
        => LET a == attempts[findOne(attempts, req[h].testId, req[h].studentId)] IN
             /\ a.totalViolations = 2 /\ a.trustScore = 88
             /\ a.totalScore = 1 /\ a.status = "submitted"
             /\ resp[h].actualScore = 1 /\ resp[h].trustScore = 88

\* the fourth request, that submission, has been answered
C11_Witness ==
    \E h \in Handlers :
        /\ pc[h] = "done" /\ req[h].kind = "submit" /\ resp[h].status = 200
        /\ req[h].testId = "t2" /\ nreq = MaxE2ERequests
        /\ req[h].answers = <<Num(1), Num(1)>> /\ req[h].violations = <<>>
        /\ LET id == findOne(attempts, req[h].testId, req[h].studentId) IN
              /\ id # 0
              /\ EventCount(EventsOf(id)) = 2
              /\ LabelsOf(id) = {"Phone Detected", "Looking Away"}
              /\ attempts[id].trustScore = 88 /\ attempts[id].totalScore = 1

\* C12: when a read or write of the attempt store or the ledger fails while
\* a chunk with a positive detection is processed, the request is answered
\* 503 DATABASE_UNAVAILABLE
C12_DatastoreFailClosed ==
    [][\A h \in Handlers :
          ( /\ pc[h] \in {"c_find", "c_insert", "c_log", "c_save"}
            /\ ~dbUp /\ Moves(h) ) =>
              /\ pc'[h] = "done"
              /\ resp'[h].status = 503
              /\ resp'[h].error = "DATABASE_UNAVAILABLE"]_vars

\* question number i of the test was given a non-null answer
Answered(answers, i) ==
    i \in DOMAIN answers /\ answers[i] # JsNull /\ answers[i] # JsUndefined

\* the weight question i earns: its marks when it is objective, answered and
\* the answer equals the key, else 0
EarnedMarks(testId, answers, i) ==
    LET q == QuestionDoc(TestDoc(testId).questionIds[i]) IN
    IF q.type = "mcq" /\ Answered(answers, i) /\ answers[i] = q.correctAnswer
      THEN q.marks ELSE 0

RECURSIVE ExpectedScore(_, _, _)
ExpectedScore(testId, answers, n) ==
    IF n = 0 THEN 0
    ELSE EarnedMarks(testId, answers, n) + ExpectedScore(testId, answers, n - 1)

AnsweredCount(testId, answers) ==
    Cardinality({i \in 1..Len(TestDoc(testId).questionIds) : Answered(answers, i)})

\* C13: a successful submission scores the sum of the weights of the
\* objective questions answered with their key, stores it as totalScore, and
\* counts the questions given a non-null answer
C13_ScoreIsSumOfWeights ==
    \A h \in Handlers :
        (pc[h] = "done" /\ req[h].kind = "submit" /\ resp[h].status = 200) =>
            LET a == attempts[findOne(attempts, req[h].testId, req[h].studentId)]
                n == Len(TestDoc(req[h].testId).questionIds)
            IN /\ resp[h].actualScore = ExpectedScore(req[h].testId, req[h].answers, n)
               /\ a.totalScore = resp[h].actualScore
               /\ a.questionsAttempted = AnsweredCount(req[h].testId, req[h].answers)

\* C14: after a successful submission every stored answer to a free-form or
\* code question has isCorrect null, not false, and is counted as attempted
C14_SubjectiveUngraded ==
    \A h \in Handlers :
        (pc[h] = "done" /\ req[h].kind = "submit" /\ resp[h].status = 200) =>
            LET a == attempts[findOne(attempts, req[h].testId, req[h].studentId)] IN
            /\ \A k \in 1..Len(a.answers) :
                  QuestionDoc(a.answers[k].questionId).type \in {"subjective", "coding"}
                     => a.answers[k].isCorrect \notin BOOLEAN
            /\ a.questionsAttempted = AnsweredCount(req[h].testId, req[h].answers)

\* C15: a submission for an attempt whose trustScore the chunks have already
\* reduced leaves the stored trustScore as it was, and the response of the
\* successful submission reports that value
C15_SubmitKeepsTrust ==
    [][\A h \in Handlers :
          LET id == findOne(attempts, req'[h].testId, req'[h].studentId) IN
          ( /\ req'[h].kind = "submit" /\ Moves(h)
            /\ id # 0 /\ attempts[id].trustScore < 100 ) =>
              /\ attempts'[id].trustScore = attempts[id].trustScore
              /\ (pc'[h] = "done" /\ resp'[h].status = 200) =>
                    resp'[h].trustScore = attempts[id].trustScore]_vars

\* a submission that reports violations has been answered for an attempt
\* with a reduced trustScore
C15_Witness ==
    \E h \in Handlers :
        /\ pc[h] = "done" /\ req[h].kind = "submit" /\ resp[h].status = 200
        /\ req[h].violations # <<>>
        /\ resp[h].trustScore < 100
        /\ LET id == findOne(attempts, req[h].testId, req[h].studentId) IN
              id # 0 /\ attempts[id].trustScore = resp[h].trustScore

\* C16: a successful submission for a pair that has no chunk-driven score,
\* with n violations in its payload, leaves trustScore at max(0, 100 - 5n)
C16_HeuristicTrust ==
    \A h \in Handlers :
        (pc[h] = "done" /\ req[h].kind = "submit" /\ resp[h].status = 200) =>
            LET id == findOne(attempts, req[h].testId, req[h].studentId)
                n == Len(req[h].violations)
            IN EventCount(EventsOf(id)) <= n =>
                 /\ attempts[id].trustScore = Max(0, 100 - 5 * n)
                 /\ resp[h].trustScore = Max(0, 100 - 5 * n)

\* the payload's violation v is already an event of attempt id
InLedger(id, v) ==
    \E e \in BagToSet(ledger) :
        /\ e.attemptId = id /\ e.timestamp = v.timestamp
        /\ e.label = mapViolationTypeToLabel(v.type)
        /\ e.severity = v.severity

\* C17: the submission appends no payload violation that is already in the
\* ledger for the attempt
C17_NoDuplicateEvents ==
    [][\A h \in Handlers :
          ( /\ pc[h] = "s_log" /\ Moves(h)
            /\ InLedger(loc[h].docId, req[h].violations[loc[h].next]) ) =>
              ledger' = ledger]_vars

\* the label the rules give each of the strings
ExpectedLabels ==
    { <<D_Phone, "Phone Detected">>,
      <<D_MobileDevice, "Phone Detected">>,
      <<D_Multiple, "Multiple Faces">>,
      <<D_MultiplePhones, "Phone Detected">>,
      <<D_NoFace, "No Person Visible">>,
      <<D_NoPerson, "No Person Visible">>,
      <<D_MultipleNoFace, "Multiple Faces">>,
      <<D_Audio, "Audio Detected">>,
      <<D_NoFaceAudio, "No Person Visible">>,
      <<D_LookingAway, "Looking Away">>,
      <<D_Face, "Looking Away">>,
      <<D_Unauthorized, "Looking Away">>,
      <<D_Suspicious, "Looking Away">>,
      <<D_MultiplePersons, "Looking Away">>,
      <<D_AudioDevice, "Phone Detected">>,
      <<D_NoFaces, "Looking Away">>,
      <<T_None, "Looking Away">> }

ExpectedLabel(type) == (CHOOSE p \in ExpectedLabels : p[1] = type)[2]

Labels ==
    {"Phone Detected", "Multiple Faces", "No Person Visible", "Audio Detected",
     "Looking Away"}

\* C18: the event logged for a reported violation carries the label the
\* rules give its type, compared in lower case: phone or device first, then
\* multiple with face, then no face or no person, then audio, else Looking
\* Away; and always one of the five labels
C18_LabelNormalised ==
    [][\A h \in Handlers :
          (pc[h] = "s_log" /\ Moves(h)) =>
              LET type == req[h].violations[loc[h].next].type
                  added == BagToSet(ledger' (-) ledger)
              IN /\ Cardinality(added) = 1
                 /\ \A e \in added :
                       e.label = ExpectedLabel(type) /\ e.label \in Labels]_vars

\* a violation typed "Multiple phones, no face" has been logged as a phone
C18_Witness ==
    \E h \in Handlers :
        /\ pc[h] = "done" /\ req[h].kind = "submit" /\ resp[h].status = 200
        /\ req[h].violations # <<>>
        /\ req[h].violations[1].type = D_MultiplePhones
        /\ \E e \in BagToSet(ledger) : e.label = "Phone Detected"

\* C19: GET test applies the window [startTime, endTime): before startTime
\* it answers 403 TEST_NOT_STARTED, from endTime on 403 TEST_ENDED, and it
\* goes on to return the questions only inside the window
C19_HalfOpenWindow ==
    [][\A h \in Handlers :
          (pc[h] = "g_test" /\ Moves(h)) =>
              LET test == TestDoc(req[h].testId) IN
              /\ now < test.startTime =>
                    /\ pc'[h] = "done" /\ resp'[h].status = 403
                    /\ resp'[h].error = "TEST_NOT_STARTED"
              /\ now >= test.endTime =>
                    /\ pc'[h] = "done" /\ resp'[h].status = 403
                    /\ resp'[h].error = "TEST_ENDED"
              /\ pc'[h] = "g_attempt" =>
                    (test.startTime <= now /\ now < test.endTime)]_vars

\* the e-mail a request is made for: the one it carries, else the user's
RequestEmail(rq) == IF rq.email # <<>> THEN rq.email ELSE UserEmail(rq.studentId)

\* the addresses in lower case without the spaces around them
Normalised(email) == IF email = E_AnnTyped THEN E_ann ELSE email

\* the test's allow-list is empty or names the request's student
OnAllowList(rq) ==
    LET allowed == TestDoc(rq.testId).allowedStudents IN
    \/ allowed = {}
    \/ rq.studentId # "" /\ IdString(rq.studentId) \in allowed
    \/ Normalised(RequestEmail(rq)) \in allowed

\* C20: GET test goes on to the questions only for a student on the test's
\* allow-list (or an empty list), and answers 404 TEST_NOT_FOUND to the
\* others whatever the clock says
C20_AllowListGate ==
    [][\A h \in Handlers :
          /\ (pc[h] = "g_test" /\ Moves(h) /\ ~OnAllowList(req[h])) =>
                /\ pc'[h] = "done" /\ resp'[h].status = 404
                /\ resp'[h].error = "TEST_NOT_FOUND"
          /\ (req'[h].kind = "get" /\ pc'[h] = "done" /\ resp'[h].status = 200) =>
                OnAllowList(req'[h])]_vars

\* before the window opens, a student who is not on the restricted test's
\* list has been answered 404, not 403
C20_Witness ==
    \E h \in Handlers :
        /\ pc[h] = "done" /\ req[h].kind = "get" /\ req[h].testId = "t4"
        /\ req[h].studentId = "s3" /\ req[h].email = <<>>
        /\ now < TestDoc("t4").startTime
        /\ resp[h].status = 404 /\ resp[h].error = "TEST_NOT_FOUND"

\* C21: a submission and a chunk with a violation overlap on one attempt.
\* The chunk's write leaves the fields the submission wrote as they are, and
\* once both have answered the trustScore the submission returned is the
\* stored one: (a) the chunk read the attempt before the submission's write
\* and saves after it, (b) the submission read the attempt before the
\* chunk's write and saves after it
C21_OverlapConsistent ==
    [][\A h \in Handlers, g \in Handlers :
          LET id == loc[g].docId IN
          /\ ( /\ pc[g] = "c_save" /\ pc'[g] = "done"
               /\ loc[g].doc.status = "in-progress"
               /\ attempts[id].status = "submitted" ) =>
                 /\ attempts'[id].status = "submitted"
                 /\ attempts'[id].answers = attempts[id].answers
                 /\ attempts'[id].totalScore = attempts[id].totalScore
                 /\ attempts'[id].endedAt = attempts[id].endedAt
                 /\ attempts'[id].duration = attempts[id].duration
                 /\ attempts'[id].questionsAttempted = attempts[id].questionsAttempted
                 /\ ( /\ pc[h] = "done" /\ req[h].kind = "submit"
                      /\ resp[h].status = 200 /\ SamePair(req[h], req[g]) ) =>
                        resp[h].trustScore = attempts'[id].trustScore
          /\ ( /\ pc[h] \in {"s_save", "s_log"} /\ pc'[h] = "done"
               /\ resp'[h].status = 200
               /\ pc[g] = "done" /\ req[g].kind = "chunk"
               /\ resp[g].violationDetected /\ SamePair(req[h], req[g]) ) =>
                 resp'[h].trustScore =
                     attempts'[findOne(attempts', req[h].testId,
                                       req[h].studentId)].trustScore]_vars

\* C22: the loser of a creation race goes on with the winner's record: when
\* a request built a new attempt and its insert resolves after another
\* request has stored the pair, a chunk goes on to record its violation and
\* a submission is stored and answered 200
C22_LoserProceeds ==
    [][\A h \in Handlers :
          ( /\ loc[h].docId = 0 /\ Moves(h)
            /\ HasAttempt(req[h].testId, req[h].studentId) ) =>
              /\ pc[h] = "c_insert" => pc'[h] \in {"c_gridfs", "c_log"}
              /\ pc[h] = "s_save" =>
                    /\ pc'[h] # "done" \/ resp'[h].status = 200
                    /\ IsSubmitted(req[h].testId, req[h].studentId)']_vars

\* C23: of the submit-test requests for one pair at most one is answered
\* 200, also when their handlers interleave: a submit-test whose write
\* resolves when the attempt is stored as submitted is answered 409 and
\* leaves the stored answers, totalScore and endedAt as they are
C23_OneSubmissionWins ==
    [][\A h \in Handlers :
          LET id == findOne(attempts, req[h].testId, req[h].studentId) IN
          ( /\ pc[h] = "s_save" /\ Moves(h)
            /\ IsSubmitted(req[h].testId, req[h].studentId) ) =>
              /\ pc'[h] = "done" /\ resp'[h].status = 409
              /\ attempts'[id].answers = attempts[id].answers
              /\ attempts'[id].totalScore = attempts[id].totalScore
              /\ attempts'[id].endedAt = attempts[id].endedAt]_vars

\* C24: a failure of the evidence store does not stop the recording of the
\* violation: a failed upload leaves the request going without an image,
\* and a chunk with a violation and without an image (the upload failed or
\* there was no frame) appends an event without imageId, adds one to
\* totalViolations, takes the penalty off the trustScore and is answered 200
\* with the violation
C24_EvidenceFailureNonFatal ==
    [][\A h \in Handlers :
          LET id == loc[h].docId IN
          /\ (pc[h] = "c_gridfs" /\ Moves(h) /\ ~dbUp) =>
                (pc'[h] = "c_log" /\ loc'[h].imageId = 0 /\ evidence' = evidence)
          /\ (pc[h] = "c_log" /\ Moves(h) /\ dbUp /\ loc[h].imageId = 0) =>
                /\ pc'[h] = "c_save"
                /\ \E e \in BagToSet(ledger') :
                      /\ e.attemptId = id /\ e.imageId = 0
                      /\ CopiesIn(e, ledger') = CopiesIn(e, ledger) + 1
          /\ (pc[h] = "c_save" /\ Moves(h) /\ dbUp /\ loc[h].imageId = 0) =>
                /\ attempts'[id].totalViolations = attempts[id].totalViolations + 1
                /\ attempts'[id].trustScore =
                      Max(0, attempts[id].trustScore - SpecPenalty(resp'[h].severity))
                /\ resp'[h].status = 200 /\ resp'[h].violationDetected]_vars

\* a chunk whose frame was extracted but never stored has been answered with
\* its violation, and the event it appended carries no image
C24_Witness ==
    \E h \in Handlers :
        /\ pc[h] = "done" /\ req[h].kind = "chunk"
        /\ resp[h].status = 200 /\ resp[h].violationDetected
        /\ ~loc[h].extractFailed /\ evidence = 0
        /\ \E e \in BagToSet(ledger) : e.imageId = 0
        /\ \E id \in 1..Len(attempts) :
              attempts[id].totalViolations = 1 /\ attempts[id].trustScore < InitialTrust

\* C25: when log.save() of a chunk's violation fails, the request is
\* answered 200 without a violation at that step, and the attempt store and
\* the ledger stay as they are: the attempt's trustScore and totalViolations
\* do not count the violation that was not recorded
C25_LedgerFailureKeepsAttempt ==
    [][\A h \in Handlers :
          (pc[h] = "c_log" /\ Moves(h) /\ ~dbUp) =>
              /\ pc'[h] = "done"
              /\ resp'[h].status = 200 /\ ~resp'[h].violationDetected
              /\ attempts' = attempts /\ ledger' = ledger]_vars

\* a chunk stored its frame and was answered 200 without a violation, the
\* ledger is empty and the attempt it created has its initial counters: its
\* log.save() failed
C25_Witness ==
    \E h \in Handlers :
        /\ pc[h] = "done" /\ req[h].kind = "chunk"
        /\ resp[h].status = 200 /\ ~resp[h].violationDetected
        /\ evidence = 1 /\ ledger = EmptyBag
        /\ Len(attempts) = 1
        /\ attempts[1].trustScore = InitialTrust /\ attempts[1].totalViolations = 0

\* C26: every proctor-chunk request that was accepted is answered in the
\* end, also when frame extraction or the detector does not return
C26_ChunkAnswered ==
    \A h \in Handlers :
        (pc[h] \in {"c_extract", "c_detect"}) ~> (pc[h] = "done")

\* C27: the duration stored with a submitted attempt is its stored endedAt
\* minus its stored startedAt in whole seconds, also when a chunk created
\* the attempt before the submission
C27_DurationMatchesTimes ==
    \A id \in 1..Len(attempts) :
        attempts[id].status = "submitted" =>
            attempts[id].duration =
                durationSeconds(attempts[id].startedAt, attempts[id].endedAt)

\* C28: the totalViolations of an attempt is the number of events in the
\* ledger that reference it. It is read here where it is least demanding:
\* while no request is working on the attempt and no event of the attempt
\* is in the ledger twice
C28_CountMatchesLedger ==
    \A id \in 1..Len(attempts) :
        ( /\ Quiet(id)
          /\ \A e \in EventsOf(id) : CopiesIn(e, ledger) = 1 ) =>
            attempts[id].totalViolations = EventCount(EventsOf(id))

\* C29: a proctor-chunk request without a detected violation changes
\* neither the attempt store nor the ledger nor the evidence store: no step
\* up to the detector's answer writes, the handler goes past the detector
\* only with a violation, and otherwise it answers 200 with
\* violationDetected false
C29_NoViolationNoEffect ==
    [][\A h \in Handlers :
          ( /\ Moves(h) /\ req'[h].kind = "chunk"
            /\ pc[h] \in {"idle", "c_extract", "c_detect"} ) =>
              /\ attempts' = attempts /\ ledger' = ledger /\ evidence' = evidence
              /\ (pc[h] = "c_detect" /\ pc'[h] # "done") =>
                    (loc'[h].ml.hasViolation /\ loc'[h].ml.violationType # T_None)
              /\ (pc[h] = "c_detect" /\ pc'[h] = "done") =>
                    (resp'[h].status = 200 /\ ~resp'[h].violationDetected)]_vars

\* a chunk was extracted and scanned without failure and answered without
\* a violation while the stores are empty
C29_Witness ==
    \E h \in Handlers :
        /\ pc[h] = "done" /\ req[h].kind = "chunk"
        /\ resp[h].status = 200 /\ ~resp[h].violationDetected
        /\ ~loc[h].extractFailed /\ ~loc[h].detectFailed
        /\ attempts = <<>> /\ ledger = EmptyBag /\ evidence = 0

\* C30: the body of a successful submit-test response is the record it
\* stored: actualScore is the stored totalScore, trustScore the stored
\* trustScore, violationCount the stored totalViolations
C30_ResponseMatchesRecord ==
    \A h \in Handlers :
        (pc[h] = "done" /\ req[h].kind = "submit" /\ resp[h].status = 200) =>
            LET a == attempts[findOne(attempts, req[h].testId, req[h].studentId)] IN
            /\ resp[h].actualScore = a.totalScore
            /\ resp[h].trustScore = a.trustScore
            /\ resp[h].violationCount = a.totalViolations

====
